---- MODULE Spec2Model ----
(***************************************************************************)
(* Rule-generation pipeline of the SpamGenie service.                      *)
(*                                                                         *)
(* The model follows SpamGenieService.process_rule_generation              *)
(* (core/services.py) and the request handlers of RuleGenerationViewSet    *)
(* (core/views.py).  A run is split at its two blocking points only: the   *)
(* wait on future.result(timeout) and the wait in the executor's shutdown  *)
(* when the `with` block is left.  Everything else a handler does is one   *)
(* atomic action.                                                          *)
(*                                                                         *)
(* The prompt composer (core/prompt_manager.py) is a pure function of the   *)
(* template table and its arguments.  Spec reads the table as an input of   *)
(* a run; ComposerSpec holds the table as state and applies the composer    *)
(* to every argument of a small range.                                      *)
(*                                                                         *)
(* Text is a sequence of string tokens, "" is the empty string, NULL is    *)
(* Python's None, and the empty function is the empty dict.                *)
(***************************************************************************)
EXTENDS Integers, Sequences, FiniteSets, TLC

\* ------------------------------------------------------------------ bounds
\* Largest number of run invocations started in one behaviour.
MaxRuns == 3
\* Longest list of selected module ids passed to the composer.
MaxSel == 2
\* Largest number of email files in the workspace the analysis is applied to.
MaxBatch == 2

\* ------------------------------------------------------- the small universe
Jobs == {1}
Runners == {1}
Samples == {1, 2}
BaseIds == {1}
Rules == {"rule-a", "rule-b"}

\* PromptTemplate rows the composer is applied to, by primary key: three
\* base templates and three module templates.  Primary keys follow the
\* order of insertion.
BaseCatalogue == {1, 2, 3}
ModuleCatalogue == {4, 5, 6}
ModuleTypes == {"scoring", "subrules", "missing-id"}

NULL == "<None>"
EmptyDict == [k \in {} |-> 0]
EmptyPrompt == <<>>

\* ------------------------------------------------------------- state
VARIABLES
    jobs,       \* RuleGeneration rows: job id -> record of column values
    processed,  \* EmailFile.processed of every sample of the workspace
    setting,    \* value of the AppSettings row "rule_gen_timeout", or NULL
    pc,         \* where each run invocation stands
    rjob,       \* the job id a run was invoked with
    obj,        \* the in-memory RuleGeneration instance of a run
    worker,     \* state of the future submitted to the executor
    wval,       \* what the worker produced (a rule text, or NULL)
    timeout,    \* the deadline (seconds) a run passed to future.result
    writes,     \* terminal writes a run has performed in this invocation
    ret,        \* the value the last invocation returned to its caller
    nruns,      \* number of invocations started so far
    store,      \* primary keys of the PromptTemplate rows that exist
    files,      \* the email files of the workspace the analysis is applied to
    out         \* the last call of the composer or the analysis and its result

pipelineVars == <<jobs, processed, setting, pc, rjob, obj, worker, wval,
                  timeout, writes, ret, nruns>>
composerVars == <<store, files, out>>

vars == <<jobs, processed, setting, pc, rjob, obj, worker, wval,
          timeout, writes, ret, nruns, store, files, out>>

\* ------------------------------------------------------- job records
\* Columns of RuleGeneration that the pipeline uses (models.py).
ModelFields(p) ==
    [prompt |-> p, base_prompt_id |-> 0, prompt_metadata |-> EmptyDict,
     rule |-> NULL, is_complete |-> FALSE]

\* Attributes of RuleGeneration that services.py reads and writes and
\* whose declaration is not part of the sources at hand.
RegenerationFields(regen, fb) ==
    [error |-> NULL, is_regeneration |-> regen, feedback |-> fb]

NewJob(p, regen, fb) ==
    [f \in (DOMAIN ModelFields(p)) \cup (DOMAIN RegenerationFields(regen, fb)) |->
        IF f \in DOMAIN ModelFields(p) THEN ModelFields(p)[f]
        ELSE RegenerationFields(regen, fb)[f]]

NoObj == NewJob(EmptyPrompt, FALSE, "")
NoRet == [success |-> FALSE, error |-> NULL, rule |-> NULL]
NoOut == [op |-> "none"]

\* Python truthiness of a dict: the empty dict is falsy.
TruthyDict(d) == DOMAIN d # {}

\* ------------------------------------------------------- configuration
TimeoutDefault == 30
TimeoutDefaultMs == 30000

\* The strings the configuration row can hold: what the settings endpoint
\* stores (str(timeout) of an integer >= 1000) and a value that is no integer.
SettingValues == {"1000", "abc"}

\* int(value): defined on decimal strings, ValueError otherwise.
IsInt(s) == s \in {"1000", "2000"}
IntOf(s) == CASE s = "1000" -> 1000 [] s = "2000" -> 2000

ValueErrorMsg == "invalid literal for int() with base 10"

\* Variant: the deadline is the default whatever the row holds.
ReadTimeoutDefaultOnly(s) ==
    [ok |-> TRUE, seconds |-> TimeoutDefault, error |-> NULL]

\* The timeout read at the start of a run: milliseconds to seconds, 30 s
\* when the row does not exist, ValueError when it holds no integer.
ReadTimeout(s) ==
    IF s = NULL THEN [ok |-> TRUE, seconds |-> TimeoutDefault, error |-> NULL]
    ELSE IF IsInt(s) THEN [ok |-> TRUE, seconds |-> IntOf(s) \div 1000, error |-> NULL]
    ELSE [ok |-> FALSE, seconds |-> 0, error |-> ValueErrorMsg]

\* ------------------------------------------------------- composition
\* Template text and name of the base rows.  Names are unique and their
\* alphabetical order is not the order of the primary keys.
BaseText(b) ==
    CASE b = 1 -> "base-template-1" [] b = 2 -> "base-template-2"
      [] OTHER -> "base-template-3"
BaseName(b) ==
    CASE b = 1 -> "Bravo rules" [] b = 2 -> "Alpha rules"
      [] OTHER -> "Charlie rules"

\* module_type, template text and name of the module rows.  module_type is
\* not a unique column: rows 4 and 6 carry the same type.
ModuleType(m) ==
    CASE m = 4 -> "scoring" [] m = 5 -> "subrules" [] OTHER -> "scoring"
ModuleText(m) ==
    CASE m = 4 -> "module-text-4" [] m = 5 -> "module-text-5"
      [] OTHER -> "module-text-6"
ModuleName(m) ==
    CASE m = 4 -> "Scoring" [] m = 5 -> "Subrules" [] OTHER -> "Scoring v2"
Reminder == "## IMPORTANT REMINDER"

\* QuerySet.first() of an unordered queryset: the row with the least pk.
FirstBase(bs) == CHOOSE b \in bs : \A c \in bs : b <= c

\* PromptManager.get_base_prompt: the template text, "" when none is found.
GetBasePrompt(bs, id) ==
    IF id # 0
    THEN IF id \in bs THEN BaseText(id) ELSE ""
    ELSE IF bs # {} THEN BaseText(FirstBase(bs)) ELSE ""

\* The base template build_prompt names in the metadata (0 is None).
MetadataBase(bs, id) ==
    IF id # 0
    THEN IF id \in bs THEN id ELSE 0
    ELSE IF bs # {} THEN FirstBase(bs) ELSE 0

\* str.replace(tok, rep): every occurrence of the token is replaced.
RECURSIVE ReplaceAll(_, _, _)
ReplaceAll(text, tok, block) ==
    IF text = <<>> THEN <<>>
    ELSE (IF Head(text) = tok THEN block ELSE <<Head(text)>>)
         \o ReplaceAll(Tail(text), tok, block)

\* The two substitutions of build_prompt, in the order of the code: the
\* headers block first, then the body block on the text that results.
\* (BuildPrompt above carries the substituted base text as one token.)
ReplacePlaceholders(template, headers, body) ==
    ReplaceAll(ReplaceAll(template, "{HEADERS}", headers), "{EMAIL_BODY}", body)

\* A base template with each placeholder once, and the blocks it is filled
\* with: the JSON text of the selected headers and the body section, whose
\* content comes from the samples and may spell a placeholder.
PlaceholderTemplate == <<"A", "{HEADERS}", "B", "{EMAIL_BODY}", "C">>
HeaderBlocks == {<<"{ }">>, <<"Subject:", "{EMAIL_BODY}">>, <<"Subject:", "{HEADERS}">>}
BodyBlocks == {<<"Plain Text:">>, <<"Plain Text:", "{HEADERS}">>,
               <<"Plain Text:", "{EMAIL_BODY}">>}

\* The module rows PromptTemplate.objects.get(is_module=True, module_type=t)
\* selects among the rows ms: get() returns the row when there is exactly
\* one, raises DoesNotExist when there is none and MultipleObjectsReturned
\* when there are several.
Matching(ms, t) == {m \in ms : ModuleType(m) = t}
TheModule(ms, t) == CHOOSE m \in Matching(ms, t) : TRUE
ModuleRaises(ms, t) == Cardinality(Matching(ms, t)) > 1

\* PromptManager.get_module_prompt: the template text, "" on DoesNotExist.
GetModulePrompt(ms, t) ==
    IF Matching(ms, t) = {} THEN "" ELSE ModuleText(TheModule(ms, t))

\* The loop over the selected modules: the texts it appends to the prompt
\* and the entries it appends to added_modules (a second get() per module).
RECURSIVE ModuleTexts(_, _)
ModuleTexts(ms, sel) ==
    IF sel = <<>> THEN <<>>
    ELSE (IF GetModulePrompt(ms, Head(sel)) # ""
          THEN <<GetModulePrompt(ms, Head(sel))>> ELSE <<>>)
         \o ModuleTexts(ms, Tail(sel))

RECURSIVE AddedModules(_, _)
AddedModules(ms, sel) ==
    IF sel = <<>> THEN <<>>
    ELSE (IF GetModulePrompt(ms, Head(sel)) # "" /\ Matching(ms, Head(sel)) # {}
          THEN <<[id |-> TheModule(ms, Head(sel)),
                  name |-> ModuleName(TheModule(ms, Head(sel))),
                  type |-> ModuleType(TheModule(ms, Head(sel)))]>>
          ELSE <<>>)
         \o AddedModules(ms, Tail(sel))

\* Variant: the closing reminder is appended to the failure value too.
FailureResultWithReminder(n) ==
    [raised |-> NULL,
     prompt |-> <<Reminder>>,
     metadata |-> [base_prompt |-> [id |-> 0, name |-> "No Base Prompt Found"],
                   modules |-> <<>>,
                   email_sample_count |-> n]]

\* What build_prompt returns when no base prompt text is found.
FailureResult(n) ==
    [raised |-> NULL,
     prompt |-> EmptyPrompt,
     metadata |-> [base_prompt |-> [id |-> 0, name |-> "No Base Prompt Found"],
                   modules |-> <<>>,
                   email_sample_count |-> n]]

\* build_prompt left by an exception e: there is no result.
Raised(e) == [raised |-> e, prompt |-> EmptyPrompt, metadata |-> EmptyDict]

\* PromptManager.build_prompt for n parsed samples, the selected module
\* types sel and the base prompt id, over the base rows bs and the module
\* rows ms.  format_email_data returns no "urls" entry for an empty sample
\* list, which the body section then reads.
BuildPrompt(bs, ms, n, sel, id) ==
    IF GetBasePrompt(bs, id) = "" THEN FailureResult(n)
    ELSE IF n = 0 THEN Raised("KeyError")
    ELSE IF \E i \in 1..Len(sel) : ModuleRaises(ms, sel[i])
    THEN Raised("MultipleObjectsReturned")
    ELSE [raised |-> NULL,
          prompt |-> <<GetBasePrompt(bs, id)>> \o ModuleTexts(ms, sel) \o <<Reminder>>,
          metadata |-> [base_prompt |->
                            [id |-> MetadataBase(bs, id),
                             name |-> IF MetadataBase(bs, id) # 0
                                      THEN BaseName(MetadataBase(bs, id))
                                      ELSE "Unknown Prompt"],
                        modules |-> AddedModules(ms, sel),
                        email_sample_count |-> n,
                        has_spam_ham_analysis |-> TRUE]]

\* {**metadata, "spam_count": len(email_files)}
WithSpamCount(md, n) ==
    [k \in (DOMAIN md) \cup {"spam_count"} |-> IF k = "spam_count" THEN n ELSE md[k]]

\* Variant: the metadata is stored on every composition.
StoreMetadataAlways(o, md) ==
    [o EXCEPT !.prompt_metadata = md]

\* The one-time write of the metadata in generate_prompt.
StoreMetadata(o, md) ==
    IF ~TruthyDict(o.prompt_metadata) THEN [o EXCEPT !.prompt_metadata = md] ELSE o

\* generate_prompt followed by the assignment of its result to the prompt:
\* the instance a run holds after composing.  The jobs of the pipeline
\* select no module (prompt_modules keeps its default, the empty list).
GeneratePrompt(o, bs, n) ==
    [StoreMetadata(o, WithSpamCount(BuildPrompt(bs, {}, n, <<>>, o.base_prompt_id).metadata, n))
        EXCEPT !.prompt = BuildPrompt(bs, {}, n, <<>>, o.base_prompt_id).prompt]

\* Variant: the prompt is composed whether or not the job carries one.
EnsurePromptAlways(o, bs, n) == GeneratePrompt(o, bs, n)

\* The prompt a run works with: composed only when the job carries none.
EnsurePrompt(o, bs, n) ==
    IF o.prompt = EmptyPrompt THEN GeneratePrompt(o, bs, n) ELSE o

\* Variant: a regeneration with feedback puts the job back to pending.
AppendFeedbackReopens(o) ==
    IF o.is_regeneration /\ o.feedback # ""
    THEN [o EXCEPT !.prompt = @ \o <<"User Feedback:", o.feedback>>,
                   !.is_complete = FALSE]
    ELSE o

\* The feedback section of a regeneration.
AppendFeedback(o) ==
    IF o.is_regeneration /\ o.feedback # ""
    THEN [o EXCEPT !.prompt = @ \o <<"User Feedback:", o.feedback>>]
    ELSE o

\* ------------------------------------------------------- terminal writes
TimeoutMsg == "Request timed out. Please try again or increase the timeout value in settings."
GenErrMsg == "Error querying OpenAI API: failure"
ParseErrMsg == "No such file or directory"
MarkErrMsg == "database error while saving EmailFile"

\* Variant: the timeout branch stores the message as the rule only.
TimeoutWriteRuleOnly(o) ==
    [o EXCEPT !.rule = TimeoutMsg, !.is_complete = TRUE]

\* The three outcomes of the inner try and the handler of the outer try.
TimeoutWrite(o) ==
    [o EXCEPT !.rule = TimeoutMsg, !.error = TimeoutMsg, !.is_complete = TRUE]

SuccessWrite(o, v) ==
    [o EXCEPT !.rule = v, !.is_complete = TRUE]

ErrorWrite(o, m) ==
    [o EXCEPT !.rule = m, !.error = m, !.is_complete = TRUE]

\* Variant: the outer handler records the error and leaves the job pending.
OuterErrorWriteKeepsPending(o, m) ==
    [o EXCEPT !.error = m]

OuterErrorWrite(o, m) ==
    [o EXCEPT !.error = m, !.is_complete = TRUE]

\* Model.save(): every column of the row takes the instance's value.
Save(js, j, o) == [js EXCEPT ![j] = o]

FailureRet(m) == [success |-> FALSE, error |-> m, rule |-> NULL]
SuccessRet(v) == [success |-> TRUE, error |-> NULL, rule |-> v]

\* The samples marked processed when the marking loop stops after k saves.
MarkedUpTo(k) == {s \in Samples : s <= k}

\* ------------------------------------------------------------- Init
\* Jobs as an external collaborator creates them: pending, with or without
\* a custom prompt, a regeneration or not, with or without feedback text.
InitialJobs ==
    {NewJob(p, regen, fb) :
        p \in {EmptyPrompt, <<"custom prompt">>},
        regen \in BOOLEAN,
        fb \in {"", "more headers"}}

Init ==
    /\ jobs \in [Jobs -> InitialJobs]
    /\ processed = [s \in Samples |-> FALSE]
    /\ setting = NULL
    /\ pc = [r \in Runners |-> "idle"]
    /\ rjob = [r \in Runners |-> 1]
    /\ obj = [r \in Runners |-> NoObj]
    /\ worker = [r \in Runners |-> "none"]
    /\ wval = [r \in Runners |-> NULL]
    /\ timeout = [r \in Runners |-> 0]
    /\ writes = [r \in Runners |-> <<>>]
    /\ ret = [r \in Runners |-> NoRet]
    /\ nruns = 0
    /\ store = {}
    /\ files = <<>>
    /\ out = NoOut

\* ------------------------------------------------------------- a run
\* What a returning invocation leaves behind in its slot.
Returned(r, result) ==
    /\ pc' = [pc EXCEPT ![r] = "idle"]
    /\ obj' = [obj EXCEPT ![r] = NoObj]
    /\ worker' = [worker EXCEPT ![r] = "none"]
    /\ wval' = [wval EXCEPT ![r] = NULL]
    /\ timeout' = [timeout EXCEPT ![r] = 0]
    /\ ret' = [ret EXCEPT ![r] = result]

\* An invocation takes the first free slot.
Invoked(r, j) ==
    /\ pc[r] = "idle"
    /\ \A q \in DOMAIN pc : q < r => pc[q] # "idle"
    /\ nruns < MaxRuns
    /\ rjob' = [rjob EXCEPT ![r] = j]
    /\ nruns' = nruns + 1

\* process_rule_generation up to the submission of the generation call:
\* load the job, read the timeout, compose the prompt when the job has none,
\* append the feedback section, submit query_openai to the executor.
\* bs is the set of base templates the store holds when it is read.
RunStart(r, j, bs) ==
    /\ Invoked(r, j)
    /\ ReadTimeout(setting).ok
    /\ jobs' = Save(jobs, j, AppendFeedback(EnsurePrompt(jobs[j], bs, Cardinality(Samples))))
    /\ obj' = [obj EXCEPT ![r] = jobs'[j]]
    /\ pc' = [pc EXCEPT ![r] = "waiting"]
    /\ worker' = [worker EXCEPT ![r] = "running"]
    /\ timeout' = [timeout EXCEPT ![r] = ReadTimeout(setting).seconds]
    /\ writes' = [writes EXCEPT ![r] = <<>>]
    /\ UNCHANGED <<processed, setting, wval, ret>>
    /\ UNCHANGED composerVars

\* The timeout row holds no integer: int() raises, the outer handler records
\* the error and completes the job.
RunBadTimeout(r, j) ==
    /\ Invoked(r, j)
    /\ ~ReadTimeout(setting).ok
    /\ jobs' = Save(jobs, j, OuterErrorWrite(jobs[j], ReadTimeout(setting).error))
    /\ writes' = [writes EXCEPT ![r] = <<"error">>]
    /\ Returned(r, FailureRet(ReadTimeout(setting).error))
    /\ UNCHANGED <<processed, setting>>
    /\ UNCHANGED composerVars

\* A sample file cannot be opened while the prompt is composed: parse_email
\* raises before anything is stored, the outer handler completes the job.
RunUnreadable(r, j) ==
    /\ Invoked(r, j)
    /\ ReadTimeout(setting).ok
    /\ jobs[j].prompt = EmptyPrompt
    /\ jobs' = Save(jobs, j, OuterErrorWrite(jobs[j], ParseErrMsg))
    /\ writes' = [writes EXCEPT ![r] = <<"error">>]
    /\ Returned(r, FailureRet(ParseErrMsg))
    /\ UNCHANGED <<processed, setting>>
    /\ UNCHANGED composerVars

\* The external call returns a text.
WorkerReturns(r, v) ==
    /\ worker[r] = "running"
    /\ worker' = [worker EXCEPT ![r] = "returned"]
    /\ wval' = [wval EXCEPT ![r] = v]
    /\ UNCHANGED <<jobs, processed, setting, pc, rjob, obj, timeout, writes, ret, nruns>>
    /\ UNCHANGED composerVars

\* The external call raises.
WorkerRaises(r) ==
    /\ worker[r] = "running"
    /\ worker' = [worker EXCEPT ![r] = "raised"]
    /\ UNCHANGED <<jobs, processed, setting, pc, rjob, obj, wval, timeout, writes, ret, nruns>>
    /\ UNCHANGED composerVars

\* future.result(timeout) raises TimeoutError: the timeout outcome is stored;
\* the return statement then leaves the `with` block, whose exit is
\* executor.shutdown(wait=True).
RunDeadline(r) ==
    /\ pc[r] = "waiting"
    /\ worker[r] = "running"
    /\ obj' = [obj EXCEPT ![r] = TimeoutWrite(obj[r])]
    /\ jobs' = Save(jobs, rjob[r], obj'[r])
    /\ writes' = [writes EXCEPT ![r] = Append(@, "timeout")]
    /\ pc' = [pc EXCEPT ![r] = "shutdown"]
    /\ UNCHANGED <<processed, setting, rjob, worker, wval, timeout, ret, nruns>>
    /\ UNCHANGED composerVars

\* Variant: after the join the late result of the worker is stored.
RunTimeoutReturnStoresLate(r) ==
    /\ pc[r] = "shutdown"
    /\ worker[r] # "running"
    /\ jobs' = IF worker[r] = "returned"
               THEN Save(jobs, rjob[r], SuccessWrite(obj[r], wval[r]))
               ELSE jobs
    /\ Returned(r, FailureRet(TimeoutMsg))
    /\ UNCHANGED <<processed, setting, rjob, writes, nruns>>
    /\ UNCHANGED composerVars

\* The executor's shutdown has joined the worker: the invocation returns the
\* timeout result it had computed.
RunTimeoutReturn(r) ==
    /\ pc[r] = "shutdown"
    /\ worker[r] # "running"
    /\ Returned(r, FailureRet(TimeoutMsg))
    /\ UNCHANGED <<jobs, processed, setting, rjob, writes, nruns>>
    /\ UNCHANGED composerVars

\* future.result returned the rule: store it, mark every sample processed.
RunSuccess(r) ==
    /\ pc[r] = "waiting"
    /\ worker[r] = "returned"
    /\ jobs' = Save(jobs, rjob[r], SuccessWrite(obj[r], wval[r]))
    /\ processed' = [s \in Samples |-> TRUE]
    /\ writes' = [writes EXCEPT ![r] = Append(@, "success")]
    /\ Returned(r, SuccessRet(wval[r]))
    /\ UNCHANGED <<setting, rjob, nruns>>
    /\ UNCHANGED composerVars

\* As RunSuccess, but saving a sample fails after k samples were marked: the
\* exception is caught by the handler of the inner try.
RunMarkFails(r, k) ==
    /\ pc[r] = "waiting"
    /\ worker[r] = "returned"
    /\ jobs' = Save(jobs, rjob[r], ErrorWrite(SuccessWrite(obj[r], wval[r]), MarkErrMsg))
    /\ processed' = [s \in Samples |-> processed[s] \/ s \in MarkedUpTo(k)]
    /\ writes' = [writes EXCEPT ![r] = Append(Append(@, "success"), "error")]
    /\ Returned(r, FailureRet(MarkErrMsg))
    /\ UNCHANGED <<setting, rjob, nruns>>
    /\ UNCHANGED composerVars

\* Variant: a call that raised is submitted again.
RunGenErrorRetries(r) ==
    /\ pc[r] = "waiting"
    /\ worker[r] = "raised"
    /\ worker' = [worker EXCEPT ![r] = "running"]
    /\ UNCHANGED <<jobs, processed, setting, pc, rjob, obj, wval, timeout, writes, ret, nruns>>
    /\ UNCHANGED composerVars

\* future.result re-raised the exception of the call.
RunGenError(r) ==
    /\ pc[r] = "waiting"
    /\ worker[r] = "raised"
    /\ jobs' = Save(jobs, rjob[r], ErrorWrite(obj[r], GenErrMsg))
    /\ writes' = [writes EXCEPT ![r] = Append(@, "error")]
    /\ Returned(r, FailureRet(GenErrMsg))
    /\ UNCHANGED <<processed, setting, rjob, nruns>>
    /\ UNCHANGED composerVars

\* ------------------------------------------------------- other handlers
\* PUT/PATCH on the rule-generation resource: the serializer's writable
\* fields include the rule and the prompt.
UpdateRule(j) ==
    /\ jobs' = [jobs EXCEPT ![j].rule = "edited rule"]
    /\ UNCHANGED <<processed, setting, pc, rjob, obj, worker, wval, timeout, writes, ret, nruns>>
    /\ UNCHANGED composerVars

UpdatePrompt(j) ==
    /\ jobs' = [jobs EXCEPT ![j].prompt = <<"edited prompt">>]
    /\ UNCHANGED <<processed, setting, pc, rjob, obj, worker, wval, timeout, writes, ret, nruns>>
    /\ UNCHANGED composerVars

\* Variant: the status view reports the stored columns as they are.
StatusResponseUnmasked(row) ==
    [is_complete |-> row.is_complete, rule |-> row.rule, error |-> row.error]

\* GET status of a job: one read of the row; rule and error are reported
\* only when the row is complete.
StatusResponse(row) ==
    [is_complete |-> row.is_complete,
     rule |-> IF row.is_complete THEN row.rule ELSE NULL,
     error |-> IF row.is_complete THEN row.error ELSE NULL]

\* GET on the timeout settings endpoint: milliseconds, 30000 when the row
\* does not exist.
SettingsGet(s) == IF s = NULL THEN TimeoutDefaultMs ELSE IntOf(s)

\* The timeout row is written (or removed) by an administrator.
ChangeSetting(v) ==
    /\ setting # v
    /\ setting' = v
    /\ UNCHANGED <<jobs, processed, pc, rjob, obj, worker, wval, timeout, writes, ret, nruns>>
    /\ UNCHANGED composerVars

\* ------------------------------------------------------------- Next
RunStep(r) ==
    \/ \E j \in DOMAIN jobs, bs \in SUBSET BaseIds : RunStart(r, j, bs)
    \/ \E j \in DOMAIN jobs : RunBadTimeout(r, j)
    \/ \E j \in DOMAIN jobs : RunUnreadable(r, j)
    \/ RunDeadline(r)
    \/ RunTimeoutReturn(r)
    \/ RunSuccess(r)
    \/ \E k \in 0..(Cardinality(Samples) - 1) : RunMarkFails(r, k)
    \/ RunGenError(r)

Next ==
    \/ \E r \in DOMAIN pc : RunStep(r)
    \/ \E r \in DOMAIN pc, v \in Rules : WorkerReturns(r, v)
    \/ \E r \in DOMAIN pc : WorkerRaises(r)
    \/ \E j \in DOMAIN jobs : UpdateRule(j)
    \/ \E j \in DOMAIN jobs : UpdatePrompt(j)
    \/ \E v \in SettingValues \cup {NULL} : ChangeSetting(v)

Spec == Init /\ [][Next]_vars

\* The steps of a run that the run's own thread and the timer of
\* future.result take; the external call itself is under no obligation.
RunProgress(r) ==
    \/ RunDeadline(r)
    \/ RunTimeoutReturn(r)
    \/ RunSuccess(r)
    \/ \E k \in 0..(Cardinality(Samples) - 1) : RunMarkFails(r, k)
    \/ RunGenError(r)

FairSpec == Spec /\ \A r \in Runners : WF_vars(RunProgress(r))

\* ------------------------------------------------------- the composer
\* Arguments the composer is applied to.
BasePromptIds == {0} \cup BaseCatalogue
SampleCounts == {0, Cardinality(Samples)}
SelLists == UNION {[1..k -> ModuleTypes] : k \in 0..MaxSel}

Bases(st) == st \cap BaseCatalogue
Modules(st) == st \cap ModuleCatalogue

ComposerInit ==
    /\ jobs = [j \in Jobs |-> NoObj]
    /\ processed = [s \in Samples |-> FALSE]
    /\ setting = NULL
    /\ pc = [r \in Runners |-> "idle"]
    /\ rjob = [r \in Runners |-> 1]
    /\ obj = [r \in Runners |-> NoObj]
    /\ worker = [r \in Runners |-> "none"]
    /\ wval = [r \in Runners |-> NULL]
    /\ timeout = [r \in Runners |-> 0]
    /\ writes = [r \in Runners |-> <<>>]
    /\ ret = [r \in Runners |-> NoRet]
    /\ nruns = 0
    /\ store = {}
    /\ files = <<>>
    /\ out = NoOut

\* POST on the template resource: the new row takes a primary key above
\* every existing one.  out describes a call against the current table, so
\* a change of the table clears it.
CreateTemplate(t) ==
    /\ t \notin store
    /\ \A u \in store : u < t
    /\ store' = store \cup {t}
    /\ out' = NoOut
    /\ UNCHANGED files
    /\ UNCHANGED pipelineVars

\* DELETE on the template resource.
DeleteTemplate(t) ==
    /\ t \in store
    /\ store' = store \ {t}
    /\ out' = NoOut
    /\ UNCHANGED files
    /\ UNCHANGED pipelineVars

\* A call of PromptManager.get_base_prompt(id).
GetBasePromptCall(id) ==
    /\ out' = [op |-> "get_base_prompt", id |-> id,
               text |-> GetBasePrompt(Bases(store), id)]
    /\ UNCHANGED <<store, files>>
    /\ UNCHANGED pipelineVars

\* A call of PromptManager.build_prompt(analysis_data, sel, id) with n
\* entries of analysis data.
BuildPromptCall(n, sel, id) ==
    /\ out' = [op |-> "build_prompt", id |-> id, n |-> n, sel |-> sel,
               result |-> BuildPrompt(Bases(store), Modules(store), n, sel, id)]
    /\ UNCHANGED <<store, files>>
    /\ UNCHANGED pipelineVars

\* The placeholder substitution of build_prompt on a base template.
ReplacePlaceholdersCall(h, b) ==
    /\ out' = [op |-> "replace_placeholders", headers |-> h, body |-> b,
               text |-> ReplacePlaceholders(PlaceholderTemplate, h, b)]
    /\ UNCHANGED <<store, files>>
    /\ UNCHANGED pipelineVars

ComposerNext ==
    \/ \E t \in BaseCatalogue \cup ModuleCatalogue : CreateTemplate(t)
    \/ \E t \in BaseCatalogue \cup ModuleCatalogue : DeleteTemplate(t)
    \/ \E id \in BasePromptIds : GetBasePromptCall(id)
    \/ \E n \in SampleCounts, sel \in SelLists, id \in BasePromptIds :
            BuildPromptCall(n, sel, id)
    \/ \E h \in HeaderBlocks, b \in BodyBlocks : ReplacePlaceholdersCall(h, b)

ComposerSpec == ComposerInit /\ [][ComposerNext]_vars

\* ------------------------------------------------------- sample analysis
\* The email files the analysis is applied to.  File 0 cannot be opened;
\* the others differ in the headers they carry, in the URLs of their HTML
\* part and in the sentences of their plain part.
FileKinds == 0..4
HeaderNames == {"Subject", "X-Mailer"}
UrlCap == 10
PhraseCap == 5

Readable(f) == f # 0

\* A URL is a host and what follows the host (path and query).
Url(h, rest) == <<h, rest>>

FileHeaderNames(f) == IF f \in {2, 4} THEN {"Subject", "X-Mailer"} ELSE {"Subject"}
HeaderValue(h) == IF h = "Subject" THEN "Win a prize" ELSE "BulkMailer 1.0"

\* The URLs of the HTML part in the order of the text: none; two URLs of
\* one host, one of them twice; eleven hosts; one URL.
FileHtml(f) ==
    CASE f = 2 -> <<Url(1, "/p1"), Url(1, "/p2"), Url(1, "/p1")>>
      [] f = 3 -> [i \in 1..(UrlCap + 1) |-> Url(i + 1, "/x")]
      [] f = 4 -> <<Url(2, "/q")>>
      [] OTHER -> <<>>

\* The sentences of the plain part: a positive number is a sentence of more
\* than ten characters, 0 a shorter one.
FilePlain(f) ==
    CASE f = 2 -> <<1, 0, 2>>
      [] f = 3 -> <<1, 2, 0, 3, 4, 5, 6, 7>>
      [] OTHER -> <<>>

Range(seq) == {seq[i] : i \in 1..Len(seq)}
Take(seq, k) == SubSeq(seq, 1, IF Len(seq) < k THEN Len(seq) ELSE k)

RECURSIVE Reverse(_)
Reverse(seq) == IF seq = <<>> THEN <<>> ELSE Reverse(Tail(seq)) \o <<Head(seq)>>

\* list(set(...)): the elements of the set in the iteration order of the
\* interpreter, which follows the string hashes and so the hash seed of the
\* process.  Two of the orders a build produces stand for all of them.
HashOrders == {"seed-a", "seed-b"}
UrlKey(u) ==
    u[1] * 4 + (CASE u[2] = "" -> 0 [] u[2] = "/p1" -> 1 [] u[2] = "/p2" -> 2
                  [] u[2] = "/q" -> 3 [] OTHER -> 1)

RECURSIVE Ascending(_)
Ascending(S) ==
    IF S = {} THEN <<>>
    ELSE <<CHOOSE u \in S : \A v \in S : UrlKey(u) <= UrlKey(v)>>
         \o Ascending(S \ {CHOOSE u \in S : \A v \in S : UrlKey(u) <= UrlKey(v)})

ListOfSet(S, ord) == IF ord = "seed-a" THEN Ascending(S) ELSE Reverse(Ascending(S))

\* parse_email of a file that can be opened.
ParseEmail(f) ==
    [headers |-> [h \in FileHeaderNames(f) |-> HeaderValue(h)],
     body |-> [plain |-> FilePlain(f), html |-> FileHtml(f)]]

\* _extract_urls: the pattern matches the scheme and the run of host
\* characters that follows, so a match ends where the host ends.
ExtractUrls(html, ord) == ListOfSet({Url(u[1], "") : u \in Range(html)}, ord)

\* _extract_common_phrases: the first five sentences of more than ten
\* characters.
ExtractCommonPhrases(plain) == Take(SelectSeq(plain, LAMBDA x : x > 0), PhraseCap)

\* filtered_data of generate_prompt: every selected header is a key, with
\* "" for a header the email does not carry.
FilteredData(f, selected) ==
    [headers |-> [k \in selected |->
                     IF k \in DOMAIN ParseEmail(f).headers
                     THEN ParseEmail(f).headers[k] ELSE ""],
     body |-> ParseEmail(f).body]

\* _extract_common_patterns.
RECURSIVE HeaderValues(_, _)
HeaderValues(data, h) ==
    IF data = <<>> THEN <<>>
    ELSE (IF h \in DOMAIN Head(data).headers THEN <<Head(data).headers[h]>> ELSE <<>>)
         \o HeaderValues(Tail(data), h)

RECURSIVE UrlPatterns(_, _)
UrlPatterns(data, ord) ==
    IF data = <<>> THEN <<>>
    ELSE ExtractUrls(Head(data).body.html, ord) \o UrlPatterns(Tail(data), ord)

RECURSIVE CommonPhrases(_)
CommonPhrases(data) ==
    IF data = <<>> THEN <<>>
    ELSE ExtractCommonPhrases(Head(data).body.plain) \o CommonPhrases(Tail(data))

ExtractCommonPatterns(data, ord) ==
    [header_patterns |->
        [h \in UNION {DOMAIN data[i].headers : i \in 1..Len(data)} |->
            HeaderValues(data, h)],
     url_patterns |-> UrlPatterns(data, ord),
     common_phrases |-> CommonPhrases(data)]

\* The "urls" entry of format_email_data for a list that is not empty: the
\* first ten matches of every sample (the pattern of the composer runs to
\* the next blank, angle bracket or quote), made a set, the first ten of it.
RECURSIVE FoundUrls(_)
FoundUrls(data) ==
    IF data = <<>> THEN <<>>
    ELSE Take(Head(data).body.html, UrlCap) \o FoundUrls(Tail(data))

FormatUrlsFirstSampleOnly(data, ord) ==
    Take(ListOfSet(Range(Take(Head(data).body.html, UrlCap)), ord), UrlCap)

FormatUrls(data, ord) == Take(ListOfSet(Range(FoundUrls(data)), ord), UrlCap)

\* What generate_prompt computes from the files fs before the prompt text
\* is put together: parse_email of a file that cannot be opened raises and
\* nothing catches it.
SampleAnalysis(fs, selected, ord) ==
    IF \E i \in 1..Len(fs) : ~Readable(fs[i])
    THEN [raised |-> "FileNotFoundError"]
    ELSE [raised |-> NULL,
          extracted |-> [i \in 1..Len(fs) |-> ExtractUrls(FileHtml(fs[i]), ord)],
          patterns |-> IF fs = <<>> THEN EmptyDict
                       ELSE ExtractCommonPatterns(
                                [i \in 1..Len(fs) |-> FilteredData(fs[i], selected)], ord),
          has_urls |-> fs # <<>>,
          urls |-> IF fs = <<>> THEN <<>>
                   ELSE FormatUrls([i \in 1..Len(fs) |-> FilteredData(fs[i], selected)], ord)]

\* get_available_headers: the headers of all files.
GetAvailableHeaders(fs) ==
    IF \E i \in 1..Len(fs) : ~Readable(fs[i])
    THEN [raised |-> "FileNotFoundError"]
    ELSE [raised |-> NULL,
          headers |-> [h \in UNION {FileHeaderNames(fs[i]) : i \in 1..Len(fs)} |->
                          HeaderValue(h)]]

AnalysisInit == ComposerInit

\* POST and DELETE on the email file resource.
UploadFile(f) ==
    /\ Len(files) < MaxBatch
    /\ files' = Append(files, f)
    /\ out' = NoOut
    /\ UNCHANGED store
    /\ UNCHANGED pipelineVars

DeleteFile(i) ==
    /\ i \in 1..Len(files)
    /\ files' = SubSeq(files, 1, i - 1) \o SubSeq(files, i + 1, Len(files))
    /\ out' = NoOut
    /\ UNCHANGED store
    /\ UNCHANGED pipelineVars

\* generate_prompt on the files of the workspace, in a process whose hash
\* seed gives the order ord.
GeneratePromptCall(selected, ord) ==
    /\ out' = [op |-> "generate_prompt", selected |-> selected,
               result |-> SampleAnalysis(files, selected, ord)]
    /\ UNCHANGED <<store, files>>
    /\ UNCHANGED pipelineVars

\* GET available_headers of the workspace.
AvailableHeadersCall ==
    /\ out' = [op |-> "get_available_headers", result |-> GetAvailableHeaders(files)]
    /\ UNCHANGED <<store, files>>
    /\ UNCHANGED pipelineVars

AnalysisNext ==
    \/ \E f \in FileKinds : UploadFile(f)
    \/ \E i \in 1..MaxBatch : DeleteFile(i)
    \/ \E selected \in {{"Subject"}, HeaderNames}, ord \in HashOrders :
            GeneratePromptCall(selected, ord)
    \/ AvailableHeadersCall

AnalysisSpec == AnalysisInit /\ [][AnalysisNext]_vars

\* ------------------------------------------------------------- claims
\* The invocation in slot r returns in this step: after waiting, or at once
\* when it fails before the generation call is submitted.
Returns(r) ==
    \/ pc[r] # "idle" /\ pc'[r] = "idle"
    \/ /\ nruns' = nruns + 1
       /\ pc[r] = "idle" /\ pc'[r] = "idle"
       /\ \A q \in DOMAIN pc : q < r => pc[q] # "idle"

\* The job is in a terminal, inspectable state.
Terminal(j) ==
    /\ jobs[j].is_complete
    /\ jobs[j].rule # NULL \/ jobs[j].error # NULL

\* C1: no step sets is_complete of a job back to false (so it goes from
\* false to true at most once), and every returning run leaves it true.
C1_CompleteOnce ==
    /\ [][\A j \in DOMAIN jobs : jobs[j].is_complete => jobs'[j].is_complete]_vars
    /\ [][\A r \in Runners : Returns(r) => jobs'[rjob'[r]].is_complete]_vars

\* A later run is in flight on a job that an earlier run completed.
C1_Witness ==
    \E r \in Runners :
        pc[r] = "waiting" /\ nruns >= 2 /\ jobs[rjob[r]].is_complete

\* C2: a run that waits for the generation call leads to a terminal job
\* whatever the call does, and every returning run, the ones that fail on
\* the timeout setting or on an unreadable sample included, leaves the job
\* complete with the rule or the error populated and returns a result.
C2_AlwaysTerminal ==
    /\ \A r \in Runners : \A j \in Jobs :
          (pc[r] = "waiting" /\ rjob[r] = j) ~> Terminal(j)
    /\ [][\A r \in Runners :
            Returns(r) =>
                /\ jobs'[rjob'[r]].is_complete
                /\ jobs'[rjob'[r]].rule # NULL \/ jobs'[rjob'[r]].error # NULL
                /\ ret'[r] \in {FailureRet(ValueErrorMsg), FailureRet(ParseErrMsg),
                                FailureRet(TimeoutMsg), FailureRet(GenErrMsg),
                                FailureRet(MarkErrMsg)}
                               \cup {SuccessRet(v) : v \in Rules}]_vars

\* A run failed on an unreadable sample and its job is terminal.
C2_Witness ==
    \E r \in Runners :
        /\ pc[r] = "idle"
        /\ ret[r] = FailureRet(ParseErrMsg)
        /\ Terminal(rjob[r])
        /\ jobs[rjob[r]].error = ParseErrMsg

\* C3 (as claimed): an invocation performs at most one terminal write.
C3_OneTerminalWrite ==
    \A r \in Runners : Len(writes[r]) <= 1

\* C4 (as claimed): once the deadline has elapsed a run is not blocked on
\* the worker any more.
C4_NoWaitAfterDeadline ==
    \A r \in Runners : ~(pc[r] = "shutdown" /\ worker[r] = "running")

\* C5: the step in which the deadline elapses stores the job complete with
\* the timeout message as its error while the worker is still running, and
\* the invocation later returns that message as a result.
C5_TimeoutStored ==
    /\ [][\A r \in Runners :
            (pc[r] = "waiting" /\ pc'[r] = "shutdown") =>
                /\ worker[r] = "running" /\ worker'[r] = "running"
                /\ jobs'[rjob[r]].is_complete
                /\ jobs'[rjob[r]].error = TimeoutMsg]_vars
    /\ [][\A r \in Runners :
            (pc[r] = "shutdown" /\ pc'[r] = "idle") =>
                ret'[r] = FailureRet(TimeoutMsg)]_vars

\* The deadline has elapsed, the job is stored, the worker is still running.
C5_Witness ==
    \E r \in Runners :
        /\ pc[r] = "shutdown" /\ worker[r] = "running"
        /\ jobs[rjob[r]].is_complete
        /\ jobs[rjob[r]].error = TimeoutMsg

\* C6: after the timeout outcome, neither the worker finishing nor the
\* return of the invocation changes any job or any processed flag.
C6_LateResultDiscarded ==
    [][\A r \in Runners :
            (pc[r] = "shutdown" /\ (worker'[r] # worker[r] \/ pc'[r] # pc[r])) =>
                jobs' = jobs /\ processed' = processed]_vars

\* The worker of a timed-out run has produced a rule; the job still shows
\* the timeout and no sample is marked.
C6_Witness ==
    \E r \in Runners :
        /\ pc[r] = "shutdown" /\ worker[r] = "returned" /\ wval[r] \in Rules
        /\ jobs[rjob[r]].rule = TimeoutMsg
        /\ \A s \in Samples : ~processed[s]

\* C7 (as claimed): no step changes the rule, the error or the prompt of a
\* complete job.
C7_TerminalFrozen ==
    [][\A j \in DOMAIN jobs :
            jobs[j].is_complete =>
                /\ jobs'[j].rule = jobs[j].rule
                /\ jobs'[j].error = jobs[j].error
                /\ jobs'[j].prompt = jobs[j].prompt]_vars

\* C8: prompt metadata that is not empty is never changed.
C8_MetadataOnce ==
    [][\A j \in DOMAIN jobs :
            TruthyDict(jobs[j].prompt_metadata) =>
                jobs'[j].prompt_metadata = jobs[j].prompt_metadata]_vars

\* The metadata records the failed first composition while the prompt was
\* composed later from a base template.
C8_Witness ==
    \E j \in DOMAIN jobs :
        /\ TruthyDict(jobs[j].prompt_metadata)
        /\ jobs[j].prompt_metadata.base_prompt.id = 0
        /\ Len(jobs[j].prompt) >= 2
        /\ jobs[j].prompt[1] = BaseText(1)

\* C9 (as claimed): a run whose generation call returned a value in time
\* returns with that value as the rule, the job complete and every sample
\* processed.
C9_SuccessStored ==
    [][\A r \in Runners :
            (pc[r] = "waiting" /\ worker[r] = "returned" /\ pc'[r] = "idle") =>
                /\ jobs'[rjob[r]].rule = wval[r]
                /\ jobs'[rjob[r]].is_complete
                /\ \A s \in Samples : processed'[s]]_vars

\* C10 (as claimed): a run that ends with the success outcome leaves the
\* job without an error.
C10_SuccessNoError ==
    [][\A r \in Runners :
            (Returns(r) /\ ret'[r].success) => jobs'[rjob[r]].error = NULL]_vars

\* The invocation in slot r starts waiting for the generation call in this
\* step: it has read the timeout, settled the prompt and submitted the call.
Submits(r) == pc[r] = "idle" /\ pc'[r] = "waiting"

\* C11 (as claimed): a job's row is changed only by a step of a run that
\* was invoked for that job.
C11_SingleWriter ==
    [][\A j \in DOMAIN jobs :
            jobs'[j] # jobs[j] =>
                \E r \in Runners :
                    rjob'[r] = j /\ (pc'[r] # pc[r] \/ nruns' # nruns)]_vars

\* C12: in every reachable state the response of the status view shows a
\* rule or an error only together with is_complete = true.
C12_StatusAfterComplete ==
    \A j \in DOMAIN jobs :
        (StatusResponse(jobs[j]).rule # NULL \/ StatusResponse(jobs[j]).error # NULL)
            => StatusResponse(jobs[j]).is_complete

\* A pending row already holds a rule text and the status response hides it.
C12_Witness ==
    \E j \in DOMAIN jobs :
        /\ ~jobs[j].is_complete
        /\ jobs[j].rule # NULL
        /\ StatusResponse(jobs[j]).rule = NULL
        /\ ~StatusResponse(jobs[j]).is_complete

\* Number of feedback sections in a prompt.
FeedbackSections(p) == Cardinality({i \in 1..Len(p) : p[i] = "User Feedback:"})

\* C13 (as claimed): the prompt a run of a regeneration job with feedback
\* submits holds exactly one feedback section, and the step leaves the
\* metadata alone when the job already carried its prompt.
C13_FeedbackOnce ==
    [][\A r \in Runners :
            (/\ Submits(r)
             /\ jobs[rjob'[r]].is_regeneration
             /\ jobs[rjob'[r]].feedback # "") =>
                /\ FeedbackSections(obj'[r].prompt) = 1
                /\ jobs[rjob'[r]].prompt # EmptyPrompt =>
                      jobs'[rjob'[r]].prompt_metadata = jobs[rjob'[r]].prompt_metadata]_vars

C15_NoRetry ==
    /\ [][\A r \in Runners :
            (worker[r] # "running" /\ worker'[r] = "running") =>
                (pc[r] = "idle" /\ nruns' = nruns + 1)]_vars
    /\ [][\A r \in Runners :
            (/\ pc[r] = "waiting" /\ worker[r] = "raised"
             /\ (pc'[r] # pc[r] \/ worker'[r] # worker[r])) =>
                /\ pc'[r] = "idle" /\ worker'[r] = "none"
                /\ jobs'[rjob[r]].is_complete
                /\ jobs'[rjob[r]].error = GenErrMsg
                /\ ret'[r] = FailureRet(GenErrMsg)]_vars

\* A run returned the message of the exception its call raised.
C15_Witness ==
    \E r \in Runners :
        /\ pc[r] = "idle" /\ worker[r] = "none"
        /\ ret[r] = FailureRet(GenErrMsg)
        /\ jobs[rjob[r]].error = GenErrMsg
        /\ writes[r] = <<"error">>

\* C16: a run of a job that carries a prompt leaves the metadata as it is
\* and submits that prompt, followed by the feedback section when the job
\* is a regeneration with feedback.
C16_CustomPromptBypass ==
    [][\A r \in Runners :
            (Submits(r) /\ jobs[rjob'[r]].prompt # EmptyPrompt) =>
                /\ jobs'[rjob'[r]].prompt_metadata = jobs[rjob'[r]].prompt_metadata
                /\ obj'[r].prompt =
                      IF jobs[rjob'[r]].is_regeneration /\ jobs[rjob'[r]].feedback # ""
                      THEN jobs[rjob'[r]].prompt
                               \o <<"User Feedback:", jobs[rjob'[r]].feedback>>
                      ELSE jobs[rjob'[r]].prompt]_vars

\* A run waits on the supplied prompt with its feedback section; nothing was
\* composed, the metadata is still empty.
C16_Witness ==
    \E r \in Runners :
        /\ pc[r] = "waiting"
        /\ obj[r].prompt = <<"custom prompt", "User Feedback:", "more headers">>
        /\ ~TruthyDict(jobs[rjob[r]].prompt_metadata)

\* ------------------------------------------------- claims on the composer
\* Alphabetical order of the base templates' names.
NameOrder == <<"Alpha rules", "Bravo rules", "Charlie rules">>
NameRank(b) == CHOOSE i \in 1..Len(NameOrder) : NameOrder[i] = BaseName(b)
LexFirst(bs) == CHOOSE b \in bs : \A c \in bs : NameRank(b) <= NameRank(c)

\* C17 (as claimed): without a base prompt id, get_base_prompt returns the
\* text of the base template whose name comes first, and build_prompt names
\* that template in the metadata.
C17_FirstByName ==
    /\ (out.op = "get_base_prompt" /\ out.id = 0 /\ Bases(store) # {}) =>
           out.text = BaseText(LexFirst(Bases(store)))
    /\ (/\ out.op = "build_prompt" /\ out.id = 0 /\ Bases(store) # {}
        /\ out.result.raised = NULL) =>
           /\ out.result.prompt[1] = BaseText(LexFirst(Bases(store)))
           /\ out.result.metadata.base_prompt.id = LexFirst(Bases(store))

\* C18 (as claimed): with a base prompt id that names no base template,
\* get_base_prompt returns the text of the base template whose name comes
\* first, and "" only when there is no base template.
C18_FallbackWhenIdMissing ==
    (out.op = "get_base_prompt" /\ out.id # 0 /\ out.id \notin Bases(store)) =>
        IF Bases(store) = {}
        THEN out.text = ""
        ELSE out.text = BaseText(LexFirst(Bases(store)))

\* C19: when get_base_prompt finds no text, build_prompt raises nothing and
\* returns the empty prompt (no module text, no reminder) with a null base
\* prompt id, no module entry and the number of samples it was given.
C19_FailureValue ==
    (out.op = "build_prompt" /\ GetBasePrompt(Bases(store), out.id) = "") =>
        /\ out.result.raised = NULL
        /\ out.result.prompt = EmptyPrompt
        /\ out.result.metadata.base_prompt.id = 0
        /\ out.result.metadata.modules = <<>>
        /\ out.result.metadata.email_sample_count = out.n

\* build_prompt was called with two samples and a module that resolves while
\* the table holds no base template, and returned the failure value.
C19_Witness ==
    /\ out.op = "build_prompt"
    /\ Bases(store) = {}
    /\ 5 \in store
    /\ out.n = 2
    /\ Len(out.sel) >= 1 /\ out.sel[1] = "subrules"
    /\ out.result.prompt = EmptyPrompt
    /\ out.result.metadata.email_sample_count = 2

\* A selected module type resolves when the table holds a module template
\* of that type.
Resolves(t) == \E m \in Modules(store) : ModuleType(m) = t

\* C20 (as claimed): for every selected list, a composition over a base
\* template and at least one sample returns a prompt that holds, between the
\* base text and the reminder, the texts of the types that resolve, in the
\* order of the list, and modules holds one entry per appended text in the
\* same order.
C20_ModulesInOrder ==
    (/\ out.op = "build_prompt" /\ out.n > 0
     /\ GetBasePrompt(Bases(store), out.id) # "") =>
        /\ out.result.raised = NULL
        /\ Len(out.result.prompt) = Len(out.result.metadata.modules) + 2
        /\ \A i \in 1..Len(out.result.metadata.modules) :
              /\ out.result.metadata.modules[i].id \in Modules(store)
              /\ out.result.prompt[i + 1] = ModuleText(out.result.metadata.modules[i].id)
        /\ [i \in 1..Len(out.result.metadata.modules) |->
                out.result.metadata.modules[i].type]
              = SelectSeq(out.sel, Resolves)

\* ------------------------------------------------- further claims on a run
\* C28 (as claimed): a processed flag never goes back to false, and it
\* changes only in the step in which a run returns the success value; a run
\* that returns a failure value leaves every flag as that run found it.
C28_ProcessedOnlyOnSuccess ==
    [][/\ \A s \in Samples : processed[s] => processed'[s]
       /\ \A r \in Runners :
             (Returns(r) /\ ~ret'[r].success) => processed' = processed
       /\ processed' # processed =>
             \E r \in Runners : Returns(r) /\ ret'[r].success]_vars

\* C30 (as claimed): the generation call is never in flight for a run whose
\* prompt is empty.
C30_NoEmptyPromptSubmitted ==
    \A r \in Runners : worker[r] = "running" => obj[r].prompt # EmptyPrompt

\* C29 (as claimed): with a base template found, build_prompt returns for
\* the empty sample list too, with a prompt and a sample count of 0.
C29_EmptySampleList ==
    (/\ out.op = "build_prompt" /\ out.n = 0
     /\ GetBasePrompt(Bases(store), out.id) # "") =>
        /\ out.result.raised = NULL
        /\ out.result.prompt # EmptyPrompt
        /\ out.result.metadata.email_sample_count = 0

\* C21 (as claimed): for the template A {HEADERS} B {EMAIL_BODY} C the
\* substituted text is A, the headers block, B, the body block, C, whatever
\* the blocks contain.
C21_PlaceholdersOnce ==
    out.op = "replace_placeholders" =>
        out.text = <<"A">> \o out.headers \o <<"B">> \o out.body \o <<"C">>

\* ------------------------------------------- claims on the sample analysis
Analysed == out.op = "generate_prompt" /\ out.result.raised = NULL /\ files # <<>>
Carrying(h) == {i \in 1..Len(files) : h \in FileHeaderNames(files[i])}
WholeUrls(f) == Range(FileHtml(f))

\* C22 (as claimed): two calls of the composition with the same files and
\* the same selected headers give the same result, the order of the
\* extracted URLs included.
C22_Deterministic ==
    [][(/\ out.op = "generate_prompt" /\ out'.op = "generate_prompt"
        /\ out'.selected = out.selected /\ files' = files)
            => out'.result = out.result]_vars

\* C23 (as claimed): when one file of a batch cannot be read and another
\* can, the composition and the header listing do not raise.
C23_UnreadableSkipped ==
    (/\ out.op \in {"generate_prompt", "get_available_headers"}
     /\ \E i \in 1..Len(files) : ~Readable(files[i])
     /\ \E i \in 1..Len(files) : Readable(files[i]))
        => out.result.raised = NULL

\* C24 (as claimed): for n samples url_patterns has at most 10*n entries
\* and common_phrases at most 5*n entries.
C24_PerSampleCaps ==
    Analysed =>
        /\ Len(out.result.patterns.url_patterns) <= UrlCap * Len(files)
        /\ Len(out.result.patterns.common_phrases) <= PhraseCap * Len(files)

\* C25 (as claimed): header_patterns[h] has one entry for each sample that
\* carries the header h and none for a sample that lacks it.
C25_HeaderEntries ==
    Analysed =>
        \A h \in DOMAIN out.result.patterns.header_patterns :
            Len(out.result.patterns.header_patterns[h]) = Cardinality(Carrying(h))

\* C26: the URL list of the body block has at most ten entries and no
\* duplicates, every entry is a URL of the HTML of some sample, and the
\* URLs of a second sample are listed when the first sample has none.
C26_UrlList ==
    Analysed =>
        /\ Len(out.result.urls) <= UrlCap
        /\ Cardinality(Range(out.result.urls)) = Len(out.result.urls)
        /\ Range(out.result.urls) \subseteq UNION {WholeUrls(files[i]) : i \in 1..Len(files)}
        /\ (/\ Len(files) = 2 /\ WholeUrls(files[1]) = {} /\ WholeUrls(files[2]) # {})
               => out.result.urls # <<>>

C26_Witness ==
    /\ Analysed
    /\ Len(files) = 2 /\ WholeUrls(files[1]) = {} /\ WholeUrls(files[2]) # {}
    /\ Range(out.result.urls) = WholeUrls(files[2])

\* C27 (as claimed): _extract_urls of the HTML of a sample returns exactly
\* the set of the whole URLs in it.
C27_WholeUrls ==
    Analysed =>
        \A i \in 1..Len(files) : Range(out.result.extracted[i]) = WholeUrls(files[i])
====
